---- MODULE Spec2Model ----
(***************************************************************************)
(* The two scraper programs of the repository, scraping.py (multi-source)  *)
(* and scrapingmain.py (CNN only), as one state machine.                   *)
(*                                                                         *)
(* A Python str is a sequence of one-character strings, so that `in`,      *)
(* lower(), startswith(), replace() and strip() are computed, not assumed. *)
(* "NUL" stands for the character \x00 and "SOH" for \x01.                 *)
(***************************************************************************)
EXTENDS Integers, Sequences, FiniteSets, TLC

VARIABLES
    prog,              \* which program runs: "scraping" or "scrapingmain"
    pc,                \* position of the main thread
    workers,           \* run input: int(input("How many threads?"))
    keywords,          \* run input: None or a list of keywords
    max_per_source,    \* run input: None or an int (peos in scrapingmain.py)
    srcIdx,            \* position of the loop over SOURCES.items()
    discovered,        \* what each build() call so far has returned
    all_raw_articles,  \* list of (article, source_name); raw_articles in scrapingmain.py
    futures,           \* future_to_article, in submission order
    waiting,           \* as_completed has installed its waiter
    snapshot,          \* futures as_completed found finished when it started
    ready,             \* waiter.finished_futures: completed since, in completion order
    consumed,          \* futures the for loop has taken, in order
    results,           \* the list scrape_sources returns
    saveIdx,           \* position of the loop over scraped in __main__
    store,             \* the rows of table articles, in id order
    store0,            \* the rows the table held when the run started
    exc,               \* the exception that ended the program, if one did
    call,              \* a direct call of one function: its arguments and result
    finished           \* an observer's log: the futures in the order they were set

vars == <<prog, pc, workers, keywords, max_per_source, srcIdx, discovered,
          all_raw_articles, futures, waiting, snapshot, ready, consumed, results,
          saveIdx, store, store0, exc, call, finished>>

----------------------------------------------------------------------------
(* Bounds of the model *)

MaxWorkers == 2
MaxArticles == 3
MaxCap == 1

\* None where a str is expected
None == <<"None">>

\* keywords=None; the code only asks `if keywords:`, which an empty list fails too
NoKeywords == <<>>

\* an optional int: <<>> is None, <<n>> is n
NoInt == <<>>

----------------------------------------------------------------------------
(* Python str operations *)

Range(s) == {s[i] : i \in 1..Len(s)}

\* str.lower() of one character, over the letters A-Z
LowerChar(c) ==
    CASE c = "A" -> "a" [] c = "B" -> "b" [] c = "C" -> "c" [] c = "D" -> "d"
      [] c = "E" -> "e" [] c = "F" -> "f" [] c = "G" -> "g" [] c = "H" -> "h"
      [] c = "I" -> "i" [] c = "J" -> "j" [] c = "K" -> "k" [] c = "L" -> "l"
      [] c = "M" -> "m" [] c = "N" -> "n" [] c = "O" -> "o" [] c = "P" -> "p"
      [] c = "Q" -> "q" [] c = "R" -> "r" [] c = "S" -> "s" [] c = "T" -> "t"
      [] c = "U" -> "u" [] c = "V" -> "v" [] c = "W" -> "w" [] c = "X" -> "x"
      [] c = "Y" -> "y" [] c = "Z" -> "z"
      [] OTHER -> c

\* str.lower()
Lower(s) == [i \in 1..Len(s) |-> LowerChar(s[i])]

\* t in s
Contains(s, t) ==
    \E i \in 0..(Len(s) - Len(t)) : SubSeq(s, i + 1, i + Len(t)) = t

\* s.startswith(t)
StartsWith(s, t) == Len(t) <= Len(s) /\ SubSeq(s, 1, Len(t)) = t

\* any(p in s for p in patterns)
ContainsAny(s, patterns) == \E k \in 1..Len(patterns) : Contains(s, patterns[k])

\* text.replace("\x00", "")
RECURSIVE RemoveNul(_)
RemoveNul(s) ==
    IF s = <<>> THEN <<>>
    ELSE IF Head(s) = "NUL" THEN RemoveNul(Tail(s))
    ELSE <<Head(s)>> \o RemoveNul(Tail(s))

\* the characters str.strip() removes from both ends
Whitespace == {" ", "\t", "\n", "\r", "\f"}

RECURSIVE LStrip(_)
LStrip(s) ==
    IF s # <<>> /\ Head(s) \in Whitespace THEN LStrip(Tail(s)) ELSE s

RECURSIVE RStrip(_)
RStrip(s) ==
    IF s # <<>> /\ s[Len(s)] \in Whitespace THEN RStrip(SubSeq(s, 1, Len(s) - 1)) ELSE s

Strip(s) == RStrip(LStrip(s))

\* sep.join(parts)
RECURSIVE Join(_, _)
Join(sep, parts) ==
    IF parts = <<>> THEN <<>>
    ELSE IF Len(parts) = 1 THEN parts[1]
    ELSE parts[1] \o sep \o Join(sep, Tail(parts))

----------------------------------------------------------------------------
(* scraping.py: configuration *)

SOURCES == <<"CNN", "BBC", "Al Jazeera", "Times of Israel">>

BAD_PATTERNS ==
    << <<"/","a","d","s","/">>,
       <<"/","a","d","v","e","r","t","o","r","i","a","l","/">>,
       <<"/","i","p","l","a","y","e","r","/">>,
       <<"/","r","e","e","l","/">>,
       <<"/","a","v","/">>,
       <<"/","p","r","o","m","o","/">>,
       <<"/","s","p","o","n","s","o","r","e","d","/">> >>

\* GOOD_PATTERNS.get(source, [])
GOOD_PATTERNS(source) ==
    CASE source = "BBC" -> << <<"/","n","e","w","s","/">>, <<"/","s","p","o","r","t","/">> >>
      [] source = "CNN" -> << <<"/","2","0","2","5","/">> >>
      [] source = "Al Jazeera" -> <<>>
      [] source = "Times of Israel" -> <<>>
      [] OTHER -> <<>>

\* the mutant of is_valid_article: the deny-list is consulted after the allow-list
is_valid_article_allow_first(url, source) ==
    LET u == Lower(url)
        good_patterns == GOOD_PATTERNS(source)
    IN  IF good_patterns # <<>> /\ ContainsAny(u, good_patterns) THEN TRUE
        ELSE IF ContainsAny(u, BAD_PATTERNS) THEN FALSE
        ELSE good_patterns = <<>>

\* the mutant of is_valid_article: an empty allow-list rejects
is_valid_article_empty_rejects(url, source) ==
    LET u == Lower(url)
        good_patterns == GOOD_PATTERNS(source)
    IN  IF ContainsAny(u, BAD_PATTERNS) THEN FALSE
        ELSE ContainsAny(u, good_patterns)

is_valid_article(url, source) ==
    LET u == Lower(url)
        good_patterns == GOOD_PATTERNS(source)
    IN  IF ContainsAny(u, BAD_PATTERNS) THEN FALSE
        ELSE IF good_patterns # <<>> /\ ~ContainsAny(u, good_patterns) THEN FALSE
        ELSE TRUE

(* scrapingmain.py: the URL filter of scrape_all_articles *)

CNN2025Prefix ==
    <<"h","t","t","p","s",":","/","/","e","d","i","t","i","o","n",".","c","n","n",
      ".","c","o","m","/","2","0","2","5","/">>

is_cnn_2025(url) == StartsWith(url, CNN2025Prefix)

----------------------------------------------------------------------------
(* The sites: what build() finds and what download/parse/nlp extract.      *)
(* These are the inputs of a run; the programs only read them.             *)

uA == CNN2025Prefix \o <<"a","d","s","/","x">>
uB == CNN2025Prefix \o <<"b">>
uC == <<"h","t","t","p","s",":","/","/","e","d","i","t","i","o","n",".","c","n","n",".","c","o","m","/","2","0","2","4","/","c">>
uF == CNN2025Prefix \o <<"f">>
uReel == <<"h","t","t","p","s",":","/","/","w","w","w",".","b","b","c",".","c","o","m","/","r","e","e","l","/","v">>
uNews == <<"h","t","t","p","s",":","/","/","w","w","w",".","b","b","c",".","c","o","m","/","N","e","w","s","/","n">>
uJ == <<"h","t","t","p","s",":","/","/","w","w","w",".","a","l","j","a","z","e","e","r","a",".","c","o","m","/","A","D","S","/","j">>

\* what build() of the source may find: paper.articles
Papers(source) ==
    CASE source = "CNN" -> {<<>>, <<uA, uB, uC>>, <<uA, uB, uC, uF>>}
      [] source = "BBC" -> {<<>>, <<uReel, uNews>>}
      [] source = "Al Jazeera" -> {<<>>, <<uJ, uC>>, <<uJ, uC, uB>>}
      [] source = "Times of Israel" -> {<<>>}
      [] OTHER -> {<<>>}

TextFr == <<"l","a"," ","p","a","i","x">>

\* the fields article.download(); article.parse(); article.nlp() fill in
Downloaded(url) ==
    CASE url = uB ->
           [url |-> url, title |-> <<"S","u","m","m","i","t"," ">>, summary |-> <<"t","a","l","k","s">>,
            keywords |-> <<<<"u","n">>, <<"w","a","r">>>>, text |-> <<"p","e","a","c","e","NUL"," ">>]
      [] url = uA ->
           [url |-> url, title |-> <<"A","d">>, summary |-> <<>>,
            keywords |-> <<>>, text |-> <<"s","u","m","m","i","t"," ","s","a","l","e">>]
      [] url = uC ->
           [url |-> url, title |-> <<"O","l","d">>, summary |-> <<" ","v","o","t","e">>,
            keywords |-> <<<<"u","n">>>>, text |-> <<"n","e","w","s">>]
      [] url = uF ->
           [url |-> url, title |-> <<"S","o","m","m","e","t">>, summary |-> <<>>,
            keywords |-> <<>>, text |-> TextFr]
      [] OTHER ->
           [url |-> url, title |-> <<>>, summary |-> <<>>,
            keywords |-> <<>>, text |-> <<>>]

\* langdetect.detect(text): a language code, or LangDetectException on a text
\* without features
detect(text) ==
    IF Strip(text) = <<>> THEN "LangDetectException"
    ELSE IF text = TextFr THEN "fr"
    ELSE "en"

----------------------------------------------------------------------------
(* The store: table articles, url TEXT UNIQUE *)

clean_text(text) ==
    IF text = None \/ text = <<>> THEN <<>> ELSE Strip(RemoveNul(text))

\* the row save_article of scraping.py binds to its INSERT
Row(article, source) ==
    [source   |-> source,
     title    |-> clean_text(article.title),
     url      |-> clean_text(article.url),
     summary  |-> clean_text(article.summary),
     keywords |-> clean_text(Join(<<",", " ">>, article.keywords)),
     text     |-> clean_text(article.text)]

\* the row save_article of scrapingmain.py binds to its INSERT (no source column)
RowMain(article) ==
    [title    |-> clean_text(article.title),
     url      |-> clean_text(article.url),
     summary  |-> clean_text(article.summary),
     keywords |-> clean_text(Join(<<",", " ">>, article.keywords)),
     text     |-> clean_text(article.text)]

\* the mutant of InsertOrIgnore: INSERT OR REPLACE, the stored row gives way
InsertOrReplace(rows, row) ==
    LET keeps(r) == r.url # row.url
    IN  Append(SelectSeq(rows, keeps), row)

\* INSERT OR IGNORE under the UNIQUE constraint on url
InsertOrIgnore(rows, row) ==
    IF \E k \in 1..Len(rows) : rows[k].url = row.url THEN rows ELSE Append(rows, row)

\* the mutant of save_article: the row saved last stays
save_article_last_wins(rows, article, source) == InsertOrReplace(rows, Row(article, source))

save_article(rows, article, source) == InsertOrIgnore(rows, Row(article, source))

save_article_main(rows, article) == InsertOrIgnore(rows, RowMain(article))

Urls(rows) == {rows[k].url : k \in 1..Len(rows)}

\* SQLite's s LIKE p: % is any run of characters, _ is any one character, and
\* the letters A-Z match without their case; the query names no ESCAPE
RECURSIVE Like(_, _)
Like(p, s) ==
    IF p = <<>> THEN s = <<>>
    ELSE IF Head(p) = "%" THEN Like(Tail(p), s) \/ (s # <<>> /\ Like(p, Tail(s)))
    ELSE IF s = <<>> THEN FALSE
    ELSE IF Head(p) = "_" THEN Like(Tail(p), Tail(s))
    ELSE LowerChar(Head(p)) = LowerChar(Head(s)) /\ Like(Tail(p), Tail(s))

\* WHERE LOWER(summary) LIKE ? OR LOWER(text) LIKE ? OR LOWER(keywords) LIKE ?
Matches(row, term) ==
    LET pattern == <<"%">> \o term \o <<"%">>
    IN  \/ Like(pattern, Lower(row.summary))
        \/ Like(pattern, Lower(row.text))
        \/ Like(pattern, Lower(row.keywords))

\* search_articles of scraping.py: the rows fetchall() returns
search_articles(term, rows) ==
    LET hit(r) == Matches(r, term)
        found == SelectSeq(rows, hit)
    IN  [k \in 1..Len(found) |-> [source |-> found[k].source, title |-> found[k].title,
                                  url |-> found[k].url, summary |-> found[k].summary]]

\* search_articles of scrapingmain.py
search_articles_main(term, rows) ==
    LET hit(r) == Matches(r, term)
        found == SelectSeq(rows, hit)
    IN  [k \in 1..Len(found) |-> [title |-> found[k].title, url |-> found[k].url,
                                  summary |-> found[k].summary]]

----------------------------------------------------------------------------
(* Article processing, in a worker thread *)

\* outcome: "ok", or the step that raised
FetchOutcomes == {"ok", "download", "parse", "nlp"}

FailedToProcess(url) == <<"Failed to process ">> \o url \o <<":", " ", "e">>

\* the mutant of process_article: no try/except, the exception leaves the call
process_article_uncaught(article, outcome) ==
    IF outcome = "ok"
    THEN [kind |-> "article", value |-> Downloaded(article.url)]
    ELSE [kind |-> "raise", value |-> <<outcome>>]

\* what the call leaves in its future: a returned value (kind "article" or "str");
\* kind "raise" would be an exception that left the call
process_article(article, outcome) ==
    IF outcome = "ok"
    THEN [kind |-> "article", value |-> Downloaded(article.url)]
    ELSE [kind |-> "str", value |-> FailedToProcess(article.url)]

----------------------------------------------------------------------------
(* The inputs of a run *)

WorkerInputs == (0 - 1)..MaxWorkers

KeywordInputs == {NoKeywords, << <<"s","u","m","m","i","t">> >>}

CapInputs == {NoInt} \cup {<<n>> : n \in 0..MaxCap}

\* if max_per_source: source_articles = source_articles[:max_per_source]
Capped(articles, cap) ==
    IF cap # NoInt /\ cap[1] # 0
    THEN SubSeq(articles, 1, IF cap[1] < Len(articles) THEN cap[1] ELSE Len(articles))
    ELSE articles

\* [a for a in s if keep(a)]
RECURSIVE FilterValid(_, _)
FilterValid(urls, source) ==
    IF urls = <<>> THEN <<>>
    ELSE (IF is_valid_article(Head(urls), source) THEN <<Head(urls)>> ELSE <<>>)
         \o FilterValid(Tail(urls), source)

RECURSIVE FilterCnn2025(_)
FilterCnn2025(urls) ==
    IF urls = <<>> THEN <<>>
    ELSE (IF is_cnn_2025(Head(urls)) THEN <<Head(urls)>> ELSE <<>>)
         \o FilterCnn2025(Tail(urls))

\* rows an earlier session left in the database file
OldRow == [source |-> "CNN", title |-> <<"O","l","d">>, url |-> uB,
           summary |-> <<>>, keywords |-> <<>>, text |-> <<"d","r","a","f","t">>]

OldRowMain == [title |-> <<"O","l","d">>, url |-> uB,
               summary |-> <<>>, keywords |-> <<>>, text |-> <<"d","r","a","f","t">>]

InitStores(p) == IF p = "scraping" THEN {<<>>, <<OldRow>>} ELSE {<<>>, <<OldRowMain>>}

----------------------------------------------------------------------------
(* The filters of the for loop over as_completed *)

\* the mutant of KeywordMatch: the keywords are compared as they were typed
KeywordMatch_keyword_as_typed(article, kws) ==
    LET text_lower == Lower(article.title \o <<" ">> \o article.summary
                            \o <<" ">> \o article.text)
    IN  \E k \in 1..Len(kws) : Contains(text_lower, kws[k])

\* any(kw.lower() in text_lower for kw in keywords)
KeywordMatch(article, kws) ==
    LET text_lower == Lower(article.title \o <<" ">> \o article.summary
                            \o <<" ">> \o article.text)
    IN  \E k \in 1..Len(kws) : Contains(text_lower, Lower(kws[k]))

\* the mutant of Verdict: no language filter
Verdict_skip_language(result, kws) ==
    IF result.kind = "str" THEN "failed"
    ELSE IF kws # NoKeywords /\ ~KeywordMatch(result.value, kws) THEN "no-keyword"
    ELSE "passed"

\* the mutant of Verdict: no keyword filter
Verdict_skip_keyword(result, kws) ==
    IF result.kind = "str" THEN "failed"
    ELSE IF detect(result.value.text) = "LangDetectException" THEN "undetected"
    ELSE IF detect(result.value.text) # "en" THEN "non-english"
    ELSE "passed"

\* the mutant of Verdict: the except clause of the language filter lets the article on
Verdict_undetected_passes(result, kws) ==
    IF result.kind = "str" THEN "failed"
    ELSE IF detect(result.value.text) \notin {"en", "LangDetectException"} THEN "non-english"
    ELSE IF kws # NoKeywords /\ ~KeywordMatch(result.value, kws) THEN "no-keyword"
    ELSE "passed"

\* the branch one iteration of the loop takes for the value future.result() returned
Verdict(result, kws) ==
    IF result.kind = "str" THEN "failed"
    ELSE IF detect(result.value.text) = "LangDetectException" THEN "undetected"
    ELSE IF detect(result.value.text) # "en" THEN "non-english"
    ELSE IF kws # NoKeywords /\ ~KeywordMatch(result.value, kws) THEN "no-keyword"
    ELSE "passed"

----------------------------------------------------------------------------
(* The state machine *)

NoFuture == [st |-> "queued", res |-> [kind |-> "none"]]

NoCall == [op |-> "none"]

\* worker threads that hold a work item
Busy == {i \in 1..Len(futures) : futures[i].st \in {"running", "hung"}}

\* the mutant of Idle: one worker thread whatever max_workers says
Idle_one_thread == Busy = {}

\* ThreadPoolExecutor(max_workers=workers): a thread is free to take an item
Idle == Cardinality(Busy) < workers

\* the mutant of Exhausted: the loop ends when no finished future is at hand
Exhausted_no_wait == snapshot = {} /\ ready = <<>>

\* the mutant of Exhausted: the loop ends once the work queue is empty
Exhausted_queue_empty == \A i \in 1..Len(futures) : futures[i].st # "queued"

\* as_completed has yielded every future it was given
Exhausted == Len(consumed) = Len(futures)

\* [(a, source_name) for a in source_articles]
Tagged(urls, source) == [k \in 1..Len(urls) |-> [url |-> urls[k], source |-> source]]

Init ==
    /\ prog \in {"scraping", "scrapingmain"}
    /\ pc = "menu"
    /\ workers = 0
    /\ keywords = NoKeywords
    /\ max_per_source = NoInt
    /\ srcIdx = 1
    /\ discovered = <<>>
    /\ all_raw_articles = <<>>
    /\ futures = <<>>
    /\ waiting = FALSE
    /\ snapshot = {}
    /\ ready = <<>>
    /\ consumed = <<>>
    /\ results = <<>>
    /\ saveIdx = 1
    /\ store \in InitStores(prog)
    /\ store0 = store
    /\ exc = "none"
    /\ call = NoCall
    /\ finished = <<>>

\* __main__, choice "1": read the inputs and call scrape_sources / scrape_all_articles
StartRun ==
    /\ pc = "menu"
    /\ workers' \in WorkerInputs
    /\ keywords' \in KeywordInputs
    /\ max_per_source' \in CapInputs
    /\ pc' = "build"
    /\ UNCHANGED <<prog, srcIdx, discovered, all_raw_articles, futures, waiting, snapshot,
                   ready, consumed, results, saveIdx, store, store0, exc, call, finished>>

\* the mutant of BuildSource: the slice is taken before is_valid_article is asked
BuildSource_cap_first ==
    /\ prog = "scraping"
    /\ pc = "build"
    /\ srcIdx <= Len(SOURCES)
    /\ \E paper \in Papers(SOURCES[srcIdx]) :
          LET source_name == SOURCES[srcIdx]
              source_articles == FilterValid(Capped(paper, max_per_source), source_name)
          IN  /\ Len(all_raw_articles) + Len(source_articles) <= MaxArticles
              /\ discovered' = Append(discovered, [source |-> source_name, articles |-> paper])
              /\ all_raw_articles' = all_raw_articles \o Tagged(source_articles, source_name)
    /\ srcIdx' = srcIdx + 1
    /\ pc' = IF srcIdx = Len(SOURCES) THEN "executor" ELSE "build"
    /\ UNCHANGED <<prog, workers, keywords, max_per_source, futures, waiting, snapshot,
                   ready, consumed, results, saveIdx, store, store0, exc, call, finished>>

\* scrape_sources: one iteration of the loop over SOURCES.items(), build() returning
BuildSource ==
    /\ prog = "scraping"
    /\ pc = "build"
    /\ srcIdx <= Len(SOURCES)
    /\ \E paper \in Papers(SOURCES[srcIdx]) :
          LET source_name == SOURCES[srcIdx]
              source_articles == Capped(FilterValid(paper, source_name), max_per_source)
          IN  /\ Len(all_raw_articles) + Len(source_articles) <= MaxArticles
              /\ discovered' = Append(discovered, [source |-> source_name, articles |-> paper])
              /\ all_raw_articles' = all_raw_articles \o Tagged(source_articles, source_name)
    /\ srcIdx' = srcIdx + 1
    /\ pc' = IF srcIdx = Len(SOURCES) THEN "executor" ELSE "build"
    /\ UNCHANGED <<prog, workers, keywords, max_per_source, futures, waiting, snapshot,
                   ready, consumed, results, saveIdx, store, store0, exc, call, finished>>

\* scrape_all_articles: build() returning, the 2025 filter and the slice
BuildCnn ==
    /\ prog = "scrapingmain"
    /\ pc = "build"
    /\ \E paper \in Papers("CNN") :
          LET raw_articles == Capped(FilterCnn2025(paper), max_per_source)
          IN  /\ Len(raw_articles) <= MaxArticles
              /\ discovered' = Append(discovered, [source |-> "CNN", articles |-> paper])
              /\ all_raw_articles' = Tagged(raw_articles, "CNN")
    /\ pc' = "executor"
    /\ UNCHANGED <<prog, workers, keywords, max_per_source, srcIdx, futures, waiting,
                   snapshot, ready, consumed, results, saveIdx, store, store0, exc, call, finished>>

\* build() raising: neither function nor __main__ has a handler around it
BuildRaises ==
    /\ pc = "build"
    /\ pc' = "crashed"
    /\ exc' = "build"
    /\ UNCHANGED <<prog, workers, keywords, max_per_source, srcIdx, discovered,
                   all_raw_articles, futures, waiting, snapshot, ready, consumed, results,
                   saveIdx, store, store0, call, finished>>

\* with ThreadPoolExecutor(max_workers=workers): ValueError unless workers > 0
OpenExecutor ==
    /\ pc = "executor"
    /\ pc' = IF workers <= 0 THEN "crashed" ELSE "submit"
    /\ exc' = IF workers <= 0 THEN "ValueError" ELSE exc
    /\ UNCHANGED <<prog, workers, keywords, max_per_source, srcIdx, discovered,
                   all_raw_articles, futures, waiting, snapshot, ready, consumed, results,
                   saveIdx, store, store0, call, finished>>

\* one executor.submit(process_article, a) of the dict comprehension
Submit ==
    /\ pc = "submit"
    /\ Len(futures) < Len(all_raw_articles)
    /\ futures' = Append(futures, NoFuture)
    /\ UNCHANGED <<prog, pc, workers, keywords, max_per_source, srcIdx, discovered,
                   all_raw_articles, waiting, snapshot, ready, consumed, results, saveIdx,
                   store, store0, exc, call, finished>>

\* as_completed(future_to_article) starts: the futures already finished are set
\* aside and a waiter is installed on the others
AsCompleted ==
    /\ pc = "submit"
    /\ Len(futures) = Len(all_raw_articles)
    /\ snapshot' = {i \in 1..Len(futures) : futures[i].st = "done"}
    /\ waiting' = TRUE
    /\ pc' = "loop"
    /\ UNCHANGED <<prog, workers, keywords, max_per_source, srcIdx, discovered,
                   all_raw_articles, futures, ready, consumed, results, saveIdx, store,
                   store0, exc, call, finished>>

\* a worker thread takes the next work item off the queue
Start(i) ==
    /\ futures[i].st = "queued"
    /\ \A j \in 1..(i - 1) : futures[j].st # "queued"
    /\ Idle
    /\ futures' = [futures EXCEPT ![i].st = "running"]
    /\ UNCHANGED <<prog, pc, workers, keywords, max_per_source, srcIdx, discovered,
                   all_raw_articles, waiting, snapshot, ready, consumed, results, saveIdx,
                   store, store0, exc, call, finished>>

\* process_article ends in the worker and the future is set
SetResult(i) ==
    /\ futures[i].st = "running"
    /\ \E outcome \in FetchOutcomes :
          futures' = [futures EXCEPT ![i] =
                         [st |-> "done", res |-> process_article(all_raw_articles[i], outcome)]]
    /\ ready' = IF waiting THEN Append(ready, i) ELSE ready
    /\ UNCHANGED <<prog, pc, workers, keywords, max_per_source, srcIdx, discovered,
                   all_raw_articles, waiting, snapshot, consumed, results, saveIdx, store,
                   store0, exc, call>>

Complete(i) == SetResult(i) /\ UNCHANGED finished

\* the same step, with the observer noting which future was set
CompleteObserved(i) == SetResult(i) /\ finished' = Append(finished, i)

\* article.download() of a running call never returns
Hang(i) ==
    /\ futures[i].st = "running"
    /\ futures' = [futures EXCEPT ![i].st = "hung"]
    /\ UNCHANGED <<prog, pc, workers, keywords, max_per_source, srcIdx, discovered,
                   all_raw_articles, waiting, snapshot, ready, consumed, results, saveIdx,
                   store, store0, exc, call, finished>>

\* the future as_completed yields next: the set-aside ones first, in no order,
\* then the others as they complete
Yielded(i) ==
    IF snapshot # {} THEN i \in snapshot ELSE ready # <<>> /\ i = Head(ready)

\* one iteration of the for loop: future.result() and the filters
Consume(i) ==
    /\ pc = "loop"
    /\ Yielded(i)
    /\ snapshot' = snapshot \ {i}
    /\ ready' = IF snapshot # {} THEN ready ELSE Tail(ready)
    /\ consumed' = Append(consumed, i)
    /\ IF futures[i].res.kind = "raise"
       THEN /\ pc' = "crashed"
            /\ exc' = "future"
            /\ results' = results
       ELSE /\ pc' = pc
            /\ exc' = exc
            /\ results' = IF Verdict(futures[i].res, keywords) = "passed"
                          THEN Append(results, [article |-> futures[i].res.value,
                                                source |-> all_raw_articles[i].source])
                          ELSE results
    /\ UNCHANGED <<prog, workers, keywords, max_per_source, srcIdx, discovered,
                   all_raw_articles, futures, waiting, saveIdx, store, store0, call, finished>>

\* as_completed is exhausted, the with block shuts the pool down, results is returned
Return ==
    /\ pc = "loop"
    /\ Exhausted
    /\ pc' = "save"
    /\ UNCHANGED <<prog, workers, keywords, max_per_source, srcIdx, discovered,
                   all_raw_articles, futures, waiting, snapshot, ready, consumed, results,
                   saveIdx, store, store0, exc, call, finished>>

\* __main__: one iteration of the loop over scraped
Save ==
    /\ pc = "save"
    /\ saveIdx <= Len(results)
    /\ store' = IF prog = "scraping"
                THEN save_article(store, results[saveIdx].article, results[saveIdx].source)
                ELSE save_article_main(store, results[saveIdx].article)
    /\ saveIdx' = saveIdx + 1
    /\ UNCHANGED <<prog, pc, workers, keywords, max_per_source, srcIdx, discovered,
                   all_raw_articles, futures, waiting, snapshot, ready, consumed, results,
                   store0, exc, call, finished>>

\* __main__: the loop over scraped ends and the menu is printed again. The next
\* choice starts from the table as it now is in the database file, with every
\* other variable set anew: a state Init covers.
Saved ==
    /\ pc = "save"
    /\ saveIdx > Len(results)
    /\ pc' = "done"
    /\ UNCHANGED <<prog, workers, keywords, max_per_source, srcIdx, discovered,
                   all_raw_articles, futures, waiting, snapshot, ready, consumed, results,
                   saveIdx, store, store0, exc, call, finished>>

----------------------------------------------------------------------------
(* Direct calls of is_valid_article and save_article, on inputs of their own *)

Fragments ==
    {<<>>, <<"/","a","d","s","/">>, <<"/","A","D","S","/">>, <<"/","R","e","e","l","/">>, <<"/","a","v","/">>, <<"/","p","r","o","m","o","/">>,
     <<"/","s","p","o","n","s","o","r","e","d","/">>, <<"/","a","d","v","e","r","t","o","r","i","a","l","/">>, <<"/","i","p","l","a","y","e","r","/">>,
     <<"/","2","0","2","5","/">>, <<"/","2","0","2","4","/">>, <<"/","n","e","w","s","/">>, <<"/","S","p","o","r","t","/">>, <<"/","x","/">>}

CnnHost == SubSeq(CNN2025Prefix, 1, 23)

UrlInputs == {CnnHost \o a \o b \o <<"x">> : a \in Fragments, b \in Fragments}

\* the sources of SOURCES, and one GOOD_PATTERNS has no entry for
SourceInputs == Range(SOURCES) \cup {"Reuters"}

\* articles as download/parse/nlp may leave them
ArticleInputs ==
    {Downloaded(uB),
     Downloaded(uC),
     [Downloaded(uB) EXCEPT !.title = <<"U","p","d","a","t","e">>, !.summary = None, !.text = <<"l","a","t","e","NUL","s","t">>],
     [Downloaded(uB) EXCEPT !.url = <<" ">> \o uB \o <<"NUL", "\n">>, !.title = <<"NUL"," ","R","a","w"," ">>],
     [Downloaded(uC) EXCEPT !.title = <<"W","i","r","e","SOH">>, !.text = <<" ","NUL","w","i","r","e","\t">>]}

\* no run is under way
NoRun ==
    /\ workers = 0
    /\ keywords = NoKeywords
    /\ max_per_source = NoInt
    /\ srcIdx = 1
    /\ discovered = <<>>
    /\ all_raw_articles = <<>>
    /\ futures = <<>>
    /\ waiting = FALSE
    /\ snapshot = {}
    /\ ready = <<>>
    /\ consumed = <<>>
    /\ results = <<>>
    /\ saveIdx = 1
    /\ exc = "none"
    /\ finished = <<>>

InitClassifier ==
    /\ NoRun
    /\ prog = "scraping"
    /\ pc = "call"
    /\ store = <<>>
    /\ store0 = <<>>
    /\ call \in [op : {"is_valid_article"}, url : UrlInputs, source : SourceInputs,
                 returned : {FALSE}, ret : {FALSE}]

\* is_valid_article(article, source) returns
ClassifyCall ==
    /\ pc = "call"
    /\ call.op = "is_valid_article"
    /\ ~call.returned
    /\ call' = [call EXCEPT !.returned = TRUE,
                            !.ret = is_valid_article(call.url, call.source)]
    /\ UNCHANGED <<prog, pc, workers, keywords, max_per_source, srcIdx, discovered,
                   all_raw_articles, futures, waiting, snapshot, ready, consumed, results,
                   saveIdx, store, store0, exc, finished>>

NextClassifier == ClassifyCall

SpecClassifier == InitClassifier /\ [][NextClassifier]_vars

InitStore ==
    /\ NoRun
    /\ prog \in {"scraping", "scrapingmain"}
    /\ pc = "call"
    /\ store = <<>>
    /\ store0 = <<>>
    /\ call = NoCall

\* save_article(cursor, conn, article, source) / save_article(cursor, conn, article)
SaveCall ==
    /\ pc = "call"
    /\ \E article \in ArticleInputs, source \in Range(SOURCES) :
          /\ store' = IF prog = "scraping"
                      THEN save_article(store, article, source)
                      ELSE save_article_main(store, article)
          /\ call' = [op |-> "save_article", article |-> article, source |-> source]
    /\ UNCHANGED <<prog, pc, workers, keywords, max_per_source, srcIdx, discovered,
                   all_raw_articles, futures, waiting, snapshot, ready, consumed, results,
                   saveIdx, store0, exc, finished>>

NextStore == SaveCall

SpecStore == InitStore /\ [][NextStore]_vars

----------------------------------------------------------------------------

\* what the user may type at "Enter keyword to search: "
TermInputs ==
    {<<>>, <<"p","e","a","c","e">>, <<"P","e","a","c","e">>, <<"t","a","l","k","s">>, <<"v","o","t","e">>, <<"u","n",","," ","w","a","r">>, <<"b","r","e","x","i","t">>, <<"_">>, <<"p","e","_","c","e">>}

\* search_articles(term, cursor) on the table as the saves so far left it
SearchCall ==
    /\ pc = "call"
    /\ \E term \in TermInputs :
          call' = [op |-> "search_articles", term |-> term,
                   ret |-> IF prog = "scraping" THEN search_articles(term, store)
                           ELSE search_articles_main(term, store)]
    /\ UNCHANGED <<prog, pc, workers, keywords, max_per_source, srcIdx, discovered,
                   all_raw_articles, futures, waiting, snapshot, ready, consumed, results,
                   saveIdx, store, store0, exc, finished>>

NextSearch == SaveCall \/ SearchCall

SpecSearch == InitStore /\ [][NextSearch]_vars

----------------------------------------------------------------------------
(* Direct calls of the URL test of each program, on URLs that differ in case *)

\* the CNN host as a site may write it in a link
CnnHostAsWritten == <<"h","t","t","p","s",":","/","/","E","d","i","t","i","o","n",".","C","N","N",".","c","o","m">>

CaseUrlInputs ==
    {host \o a \o <<"x">> : host \in {CnnHost, CnnHostAsWritten}, a \in Fragments}

InitEligible ==
    /\ NoRun
    /\ prog \in {"scraping", "scrapingmain"}
    /\ pc = "call"
    /\ store = <<>>
    /\ store0 = <<>>
    /\ call \in [op : {"eligible"}, url : CaseUrlInputs,
                 source : IF prog = "scraping" THEN SourceInputs ELSE {"CNN"},
                 returned : {FALSE}, ret : {FALSE}]

\* the condition of the list comprehension over paper.articles, for one article
EligibleCall ==
    /\ pc = "call"
    /\ call.op = "eligible"
    /\ ~call.returned
    /\ call' = [call EXCEPT !.returned = TRUE,
                            !.ret = IF prog = "scraping"
                                    THEN is_valid_article(call.url, call.source)
                                    ELSE is_cnn_2025(call.url)]
    /\ UNCHANGED <<prog, pc, workers, keywords, max_per_source, srcIdx, discovered,
                   all_raw_articles, futures, waiting, snapshot, ready, consumed, results,
                   saveIdx, store, store0, exc, finished>>

NextEligible == EligibleCall

SpecEligible == InitEligible /\ [][NextEligible]_vars

----------------------------------------------------------------------------
(* Direct calls of the body of the for loop, on results and keywords of their own *)

\* an article whose body reads "Election Day"
ElectionArticle ==
    [url |-> uNews, title |-> <<"P","o","l","l">>, summary |-> <<>>,
     keywords |-> <<>>, text |-> <<"E","l","e","c","t","i","o","n"," ","D","a","y">>]

\* what future.result() may return
ResultInputs ==
    {[kind |-> "article", value |-> a] :
        a \in {ElectionArticle, Downloaded(uA), Downloaded(uB), Downloaded(uC),
               Downloaded(uF), Downloaded(uNews)}}
    \cup {[kind |-> "str", value |-> FailedToProcess(uB)]}

\* [kw.strip() for kw in keyword_input.split(",")] if keyword_input else None
KeywordListInputs ==
    {NoKeywords,
     << <<"e","l","e","c","t","i","o","n">> >>,
     << <<"E","L","E","C","T","I","O","N">> >>,
     << <<"d","a","y">> >>,
     << <<"v","o","t","e"," ","n","e","w","s">> >>,
     << <<"o","l","d"," ","v","o","t","e">> >>,
     << <<"w","a","r">>, <<"S","u","m","m","i","t">> >>,
     << <<"b","r","e","x","i","t">>, <<>>, <<"u","n">> >>,
     << <<"b","r","e","x","i","t">> >>}

InitFilter ==
    /\ NoRun
    /\ prog \in {"scraping", "scrapingmain"}
    /\ pc = "call"
    /\ store = <<>>
    /\ store0 = <<>>
    /\ call \in [op : {"filter"}, result : ResultInputs, kws : KeywordListInputs,
                 returned : {FALSE}, ret : {"none"}]

\* one iteration of the for loop on the value future.result() returned
FilterCall ==
    /\ pc = "call"
    /\ call.op = "filter"
    /\ ~call.returned
    /\ call' = [call EXCEPT !.returned = TRUE, !.ret = Verdict(call.result, call.kws)]
    /\ UNCHANGED <<prog, pc, workers, keywords, max_per_source, srcIdx, discovered,
                   all_raw_articles, futures, waiting, snapshot, ready, consumed, results,
                   saveIdx, store, store0, exc, finished>>

NextFilter == FilterCall

SpecFilter == InitFilter /\ [][NextFilter]_vars

----------------------------------------------------------------------------

Worker ==
    \/ \E i \in 1..Len(futures) : Start(i)
    \/ \E i \in 1..Len(futures) : Complete(i)

Main ==
    \/ StartRun
    \/ BuildSource
    \/ BuildCnn
    \/ BuildRaises
    \/ OpenExecutor
    \/ Submit
    \/ AsCompleted
    \/ \E i \in 1..Len(futures) : Consume(i)
    \/ Return
    \/ Save
    \/ Saved

Next == Main \/ Worker

Spec == Init /\ [][Next]_vars

\* the same programs, with the order of completion on record
WorkerObserved ==
    \/ \E i \in 1..Len(futures) : Start(i)
    \/ \E i \in 1..Len(futures) : CompleteObserved(i)

NextOrder == Main \/ WorkerObserved

SpecOrder == Init /\ [][NextOrder]_vars

\* the same programs, where a download may also never return. The main thread
\* and the worker threads are operating-system threads: each takes its step
\* once it can. What the user types and what the sites do is not scheduled.
PoolMain ==
    \/ OpenExecutor
    \/ Submit
    \/ AsCompleted
    \/ \E i \in 1..Len(futures) : Consume(i)

NextHang == Next \/ \E i \in 1..Len(futures) : Hang(i)

SpecHang ==
    /\ Init
    /\ [][NextHang]_vars
    /\ WF_vars(PoolMain)
    /\ WF_vars(\E i \in 1..Len(futures) : Start(i))
    /\ WF_vars(\E i \in 1..Len(futures) : Complete(i))

----------------------------------------------------------------------------
(* What a run prints *)

\* print(f"   Found {len(source_articles)} articles in {source_name}") and, in
\* scrapingmain.py, print(f"Found {len(raw_articles)} CNN articles to scrape.")
FoundLines ==
    [k \in 1..Len(discovered) |->
        [kind |-> "Found", source |-> discovered[k].source,
         n |-> Cardinality({i \in 1..Len(all_raw_articles) :
                               all_raw_articles[i].source = discovered[k].source})]]

\* print(f"Total articles to scrape: {len(all_raw_articles)}")
TotalLines ==
    IF prog = "scraping" /\ srcIdx > Len(SOURCES)
    THEN <<[kind |-> "Total", n |-> Len(all_raw_articles)]>>
    ELSE <<>>

\* the line the a-th iteration of the for loop prints
LoopLine(a) ==
    LET r == futures[consumed[a]].res
        v == Verdict(r, keywords)
    IN  CASE v = "failed" -> [kind |-> "failed", text |-> r.value]
          [] v = "undetected" -> [kind |-> "Could not detect language", url |-> r.value.url]
          [] v = "non-english" -> [kind |-> "Skipped non-English", url |-> r.value.url]
          [] v = "no-keyword" -> [kind |-> "Skipped (no keyword match)", url |-> r.value.url]
          [] OTHER -> [kind |-> "Passed", i |-> a, n |-> Len(all_raw_articles),
                       title |-> r.value.title]

LoopLines ==
    [a \in {b \in 1..Len(consumed) : futures[consumed[b]].res.kind # "raise"} |-> LoopLine(a)]

\* print("="*80) and the title, URL and text preview of each article saved
SavedLines ==
    [k \in 1..(saveIdx - 1) |-> [kind |-> "Saved", title |-> results[k].article.title,
                                 url |-> results[k].article.url]]

\* everything the run has printed so far
Printed == FoundLines \o TotalLines \o LoopLines \o SavedLines

----------------------------------------------------------------------------
(* What the claims speak of *)

Submitted == 1..Len(all_raw_articles)

Consumed == Range(consumed)

\* the for loop over as_completed has ended normally
LoopOver == pc \in {"save", "done"}

Url(i) == all_raw_articles[i].url

\* the URL classifier of the program that runs
Eligible(url, source) ==
    IF prog = "scraping" THEN is_valid_article(url, source) ELSE is_cnn_2025(url)

RECURSIVE EligibleOf(_)
EligibleOf(papers) ==
    IF papers = <<>> THEN <<>>
    ELSE LET p == Head(papers)
             ok(u) == Eligible(u, p.source)
         IN  Tagged(SelectSeq(p.articles, ok), p.source) \o EligibleOf(Tail(papers))

\* submission i was fetched and extracted, is English, and matches a keyword if
\* keywords were given
Passes(i) ==
    LET a == Downloaded(Url(i))
    IN  /\ futures[i].res.kind = "article"
        /\ detect(a.text) = "en"
        /\ (keywords = NoKeywords \/ KeywordMatch(a, keywords))

\* the row a save of submission i binds
RowOf(i) ==
    IF prog = "scraping"
    THEN Row(Downloaded(Url(i)), all_raw_articles[i].source)
    ELSE RowMain(Downloaded(Url(i)))

RECURSIVE Survivors(_)
Survivors(order) ==
    IF order = <<>> THEN <<>>
    ELSE (IF Passes(Head(order))
          THEN <<[article |-> Downloaded(Url(Head(order))),
                  source |-> all_raw_articles[Head(order)].source]>>
          ELSE <<>>) \o Survivors(Tail(order))

----------------------------------------------------------------------------
(* C1: with a positive worker count, the for loop over as_completed takes    *)
(* each submitted URL's outcome exactly once: never one twice, only finished *)
(* ones, each an article or a failure string, and when the loop has ended    *)
(* the outcomes taken are those of all M submissions, for M = 0 and for more *)
(* workers than URLs as well.                                                *)
C1_OneOutcomePerUrl ==
    /\ \A a, b \in 1..Len(consumed) : consumed[a] = consumed[b] => a = b
    /\ \A a \in 1..Len(consumed) :
          /\ consumed[a] \in 1..Len(futures)
          /\ futures[consumed[a]].st = "done"
          /\ futures[consumed[a]].res.kind \in {"article", "str"}
    /\ LoopOver => /\ workers > 0
                   /\ Consumed = Submitted
                   /\ Len(consumed) = Len(all_raw_articles)

C1_Witness ==
    /\ pc = "save"
    /\ workers = 2
    /\ Len(all_raw_articles) = 3
    /\ consumed = <<3, 1, 2>>
    /\ futures[1].res.kind = "str"
    /\ futures[2].res.kind = "article"

(* C5: a run without a per-source cap that started on an empty table ends    *)
(* with exactly the URLs stored that were discovered, are eligible under the *)
(* program's URL classifier, were fetched and extracted, are English and     *)
(* match a keyword when keywords were given; one row each.                   *)
C5_StoredAreTheSurvivors ==
    (pc = "done" /\ store0 = <<>> /\ max_per_source = NoInt) =>
        /\ all_raw_articles = EligibleOf(discovered)
        /\ Urls(store) = {Url(i) : i \in {j \in Submitted : Passes(j)}}
        /\ Cardinality(Urls(store)) = Len(store)

\* the spec's scenario: A deny-listed, B a 2025 article, C a 2024 article
C5_Witness ==
    /\ prog = "scraping"
    /\ pc = "done"
    /\ store0 = <<>>
    /\ max_per_source = NoInt
    /\ keywords = << <<"s","u","m","m","i","t">> >>
    /\ discovered[1] = [source |-> "CNN", articles |-> <<uA, uB, uC>>]
    /\ all_raw_articles = <<[url |-> uB, source |-> "CNN"]>>
    /\ Len(store) = 1
    /\ store[1].url = uB

(* C6: a failure of download, parse or nlp stays in its own task: the task's *)
(* future holds a failure string that names the URL, no future ever holds an *)
(* exception, the program never crashes once futures exist, every other URL  *)
(* keeps the outcome of its own fetch, and when the loop has ended the       *)
(* survivors among all outcomes are what is returned.                        *)
C6_FailureStaysInItsTask ==
    /\ \A i \in 1..Len(futures) : futures[i].st = "done" =>
          \/ futures[i].res = [kind |-> "article", value |-> Downloaded(Url(i))]
          \/ /\ futures[i].res.kind = "str"
             /\ Contains(futures[i].res.value, Url(i))
    /\ pc = "crashed" => futures = <<>>
    /\ LoopOver => /\ Consumed = Submitted
                   /\ results = Survivors(consumed)

C6_Witness ==
    /\ pc = "done"
    /\ Len(consumed) = 3
    /\ futures[consumed[1]].res.kind = "str"
    /\ Passes(consumed[2])
    /\ futures[consumed[3]].res.kind = "str"
    /\ Len(results) = 1

(* C8: the table changes only in the save loop, after the pool loop ended,   *)
(* and every row a run adds is the row of a submission whose outcome was     *)
(* taken and that was fetched, found English and matched a keyword when      *)
(* keywords were given; the rows of earlier runs stay as they were.          *)
C8_WriteOnlyAfterFilters ==
    /\ ~LoopOver => store = store0
    /\ Len(store0) <= Len(store)
    /\ SubSeq(store, 1, Len(store0)) = store0
    /\ \A k \in (Len(store0) + 1)..Len(store) :
          \E i \in Consumed : Passes(i) /\ store[k] = RowOf(i)

C8_Witness ==
    /\ pc = "done"
    /\ keywords # NoKeywords
    /\ Len(store) > Len(store0)
    /\ \E i, j, k \in Consumed :
          /\ Verdict(futures[i].res, keywords) = "failed"
          /\ Verdict(futures[j].res, keywords) = "no-keyword"
          /\ Verdict(futures[k].res, keywords) = "passed"

(* C2: under any sequence of save_article calls the table holds one row per  *)
(* URL at most, a save of a URL that is stored leaves the table as it was,   *)
(* and a save of a URL that is not stored adds one row after the others.     *)
C2_FirstWriteWins ==
    [][call'.op = "save_article" =>
          LET url == clean_text(call'.article.url)
          IN  /\ url \in Urls(store) => store' = store
              /\ url \notin Urls(store) =>
                    /\ Len(store') = Len(store) + 1
                    /\ SubSeq(store', 1, Len(store)) = store
                    /\ store'[Len(store')].url = url
              /\ Cardinality(Urls(store')) = Len(store')]_vars

\* the last save was of a stored URL with another title, and the row kept its own
C2_Witness ==
    /\ call.op = "save_article"
    /\ Len(store) >= 2
    /\ \E k \in 1..Len(store) :
          /\ store[k].url = clean_text(call.article.url)
          /\ store[k].title # clean_text(call.article.title)
          /\ call.article.url # store[k].url

(* C3: is_valid_article returns False for every URL whose lower-cased form   *)
(* contains a deny-list fragment, whatever the source and its allow-list.    *)
C3_DenyListWins ==
    (call.op = "is_valid_article" /\ call.returned
        /\ ContainsAny(Lower(call.url), BAD_PATTERNS))
    => call.ret = FALSE

\* a CNN URL with the allow-listed /2025/ and, in capitals, the deny-listed /ADS/
C3_Witness ==
    /\ call.op = "is_valid_article"
    /\ call.returned
    /\ call.source = "CNN"
    /\ Contains(call.url, <<"/","2","0","2","5","/">>)
    /\ Contains(call.url, <<"/","A","D","S","/">>)
    /\ call.ret = FALSE

(* C4: for a URL without a deny-list fragment, is_valid_article returns True *)
(* exactly when the source has no allow-list entry, or an empty one, or the  *)
(* URL contains one of its allow-listed fragments. Containment is that of    *)
(* the classifier: of the fragment in the lower-cased URL.                   *)
C4_AllowList ==
    (call.op = "is_valid_article" /\ call.returned
        /\ ~ContainsAny(Lower(call.url), BAD_PATTERNS))
    => (call.ret = TRUE <=>
           \/ call.source \notin {"BBC", "CNN"}
           \/ ContainsAny(Lower(call.url), GOOD_PATTERNS(call.source)))

\* a BBC URL whose only allow-listed fragment is written /Sport/
C4_Witness ==
    /\ call.op = "is_valid_article"
    /\ call.returned
    /\ call.source = "BBC"
    /\ Contains(call.url, <<"/","S","p","o","r","t","/">>)
    /\ ~Contains(Lower(call.url), <<"/","n","e","w","s","/">>)
    /\ call.ret = TRUE

(* C7: a build() that fails for one source is that source's failure alone:   *)
(* when the program has come to rest after one, build() has returned for     *)
(* every other source. scrape_sources has no handler around build(), so the  *)
(* first failure ends the program.                                           *)
C7_BuildFailureIsPerSource ==
    (prog = "scraping" /\ exc = "build" /\ pc \in {"crashed", "done"})
    => Len(discovered) >= Len(SOURCES) - 1

(* C9: with two workers or more, once the executor is open, either two       *)
(* downloads hang or every submission whose download does not hang has its   *)
(* outcome taken by the for loop.                                            *)
Hung == {i \in 1..Len(futures) : futures[i].st = "hung"}

OthersConsumed ==
    /\ Len(futures) = Len(all_raw_articles)
    /\ \A i \in 1..Len(futures) : i \in Hung \/ i \in Consumed

C9_HangDoesNotBlockOthers ==
    (pc \in {"submit", "loop"} /\ workers >= 2)
    ~> (Cardinality(Hung) >= 2 \/ OthersConsumed)

C9_Witness ==
    /\ workers = 2
    /\ Len(futures) = 3
    /\ Hung = {1}
    /\ consumed = <<3, 2>>

(* C10: a run with a worker count of zero or less does nothing before it     *)
(* fails: no build() has returned, nothing is submitted, nothing is stored.  *)
(* Both functions build their sources first and open the executor after.     *)
C10_FailsBeforeAnyWork ==
    (pc # "menu" /\ workers <= 0)
    => (discovered = <<>> /\ futures = <<>> /\ store = store0)


(* C11: the keyword filter acts only when a non-empty keyword list is given; *)
(* then an English article passes exactly when one of the keywords, letter   *)
(* case aside, is a substring of title, summary and text joined by single    *)
(* spaces; without a keyword list every English article passes.              *)
Joined(article) ==
    article.title \o <<" ">> \o article.summary \o <<" ">> \o article.text

\* t occurs in s at some offset, the letters compared without their case
OccursIn(s, t) ==
    \E off \in 0..(Len(s) - Len(t)) :
        \A k \in 1..Len(t) : LowerChar(s[off + k]) = LowerChar(t[k])

FilterReached ==
    /\ call.op = "filter"
    /\ call.returned
    /\ call.result.kind = "article"
    /\ detect(call.result.value.text) = "en"

C11_KeywordFilter ==
    FilterReached =>
        (call.ret = "passed" <=>
            \/ call.kws = NoKeywords
            \/ \E k \in 1..Len(call.kws) : OccursIn(Joined(call.result.value), call.kws[k]))

\* the spec's example: keyword "election", body "Election Day"
C11_Witness ==
    /\ FilterReached
    /\ call.kws = << <<"e","l","e","c","t","i","o","n">> >>
    /\ call.result.value.text = <<"E","l","e","c","t","i","o","n"," ","D","a","y">>
    /\ call.ret = "passed"

\* C11 as it is worded: a substring of the concatenation title + summary + text
C11_KeywordInConcatenation ==
    FilterReached =>
        (call.ret = "passed" <=>
            \/ call.kws = NoKeywords
            \/ \E k \in 1..Len(call.kws) :
                  OccursIn(call.result.value.title \o call.result.value.summary
                           \o call.result.value.text, call.kws[k]))

(* C12: whatever the loop returns was detected as "en": an article of        *)
(* another language and one whose detection raised LangDetectException are   *)
(* dropped before the keyword filter, the exception does not leave the loop, *)
(* and the loop goes on to take every other outcome.                         *)
C12_LanguageFilter ==
    /\ \A k \in 1..Len(results) : detect(results[k].article.text) = "en"
    /\ \A a \in 1..Len(consumed) :
          LET r == futures[consumed[a]].res
          IN  (r.kind = "article" /\ detect(r.value.text) # "en")
                  => /\ Verdict(r, keywords) \in {"undetected", "non-english"}
                     /\ \A k \in 1..Len(results) : results[k].article # r.value
    /\ exc \in {"none", "build", "ValueError"}
    /\ LoopOver => Consumed = Submitted

\* taken in this order: an article without text, a French one, an English one
C12_Witness ==
    /\ pc = "done"
    /\ Len(consumed) = 3
    /\ Verdict(futures[consumed[1]].res, keywords) = "undetected"
    /\ Verdict(futures[consumed[2]].res, keywords) = "non-english"
    /\ Verdict(futures[consumed[3]].res, keywords) = "passed"
    /\ Len(results) = 1

(* C13: search_articles(term) returns the stored rows, in table order, whose *)
(* summary, text or keywords contain term as a substring, letter case aside, *)
(* for every term. The query hands term to LIKE unescaped, so a term with    *)
(* _ or %% in it is matched as a pattern.                                     *)
HasTerm(row, term) ==
    \/ OccursIn(row.summary, term)
    \/ OccursIn(row.text, term)
    \/ OccursIn(row.keywords, term)

WithTerm(rows, term) ==
    LET has(r) == HasTerm(r, term)
    IN  SelectSeq(rows, has)

UrlsOf(rows) == [k \in 1..Len(rows) |-> rows[k].url]

C13_SearchIsSubstringSearch ==
    call.op = "search_articles" => UrlsOf(call.ret) = UrlsOf(WithTerm(store, call.term))

(* C14: when a run has ended, each submitted URL is in exactly one of the    *)
(* classes passed, rejected and failed, and the run has printed a count of   *)
(* the processed, passed, rejected and failed items. The programs print one  *)
(* line per outcome and no count of the classes.                             *)
PassedUrls == {i \in Consumed : Verdict(futures[i].res, keywords) = "passed"}

FailedUrls == {i \in Consumed : Verdict(futures[i].res, keywords) = "failed"}

RejectedUrls ==
    {i \in Consumed :
        Verdict(futures[i].res, keywords) \in {"undetected", "non-english", "no-keyword"}}

C14_AccountedAndCounted ==
    pc = "done" =>
        /\ Submitted = PassedUrls \cup RejectedUrls \cup FailedUrls
        /\ \E k \in 1..Len(Printed) :
              /\ Printed[k].kind = "counts"
              /\ Printed[k].processed = Len(consumed)
              /\ Printed[k].passed = Cardinality(PassedUrls)
              /\ Printed[k].rejected = Cardinality(RejectedUrls)
              /\ Printed[k].failed = Cardinality(FailedUrls)

(* C15: two URLs that differ in letter case alone get the same decision, for *)
(* every source, from is_valid_article and from the URL test of              *)
(* scrape_all_articles. The latter is startswith() on the URL as written.    *)
C15_CaseInsensitiveEligibility ==
    (call.op = "eligible" /\ call.returned) =>
        \A v \in CaseUrlInputs :
            Lower(v) = Lower(call.url) => Eligible(v, call.source) = call.ret

(* C16: the for loop takes the outcomes in the order in which the tasks      *)
(* finished, so the returned list is in that order. as_completed yields the  *)
(* futures that were finished when it was called first, in the order of a    *)
(* set, and only the others in the order of their completion.                *)
\* the place of future i in the order of completion
FinishedAt(i) == CHOOSE k \in 1..Len(finished) : finished[k] = i

C16_ConsumedInCompletionOrder ==
    /\ \A a, b \in 1..Len(consumed) :
          a < b => FinishedAt(consumed[a]) < FinishedAt(consumed[b])
    /\ LoopOver => consumed = finished

(* C17: after any sequence of save_article calls, no title, summary or text  *)
(* of a stored row holds a NUL or another control byte or starts or ends     *)
(* with whitespace. clean_text removes \x00 and nothing else from within.    *)
ControlBytes == {"NUL", "SOH"}

Clean(field) ==
    /\ \A k \in 1..Len(field) : field[k] \notin ControlBytes
    /\ field # <<>> => (field[1] \notin Whitespace /\ field[Len(field)] \notin Whitespace)

C17_StoredFieldsAreClean ==
    \A k \in 1..Len(store) :
        Clean(store[k].title) /\ Clean(store[k].summary) /\ Clean(store[k].text)

(* C18: a step of a worker thread changes one future and nothing else: not   *)
(* the results list, not the table, not the loop's position. The results     *)
(* list changes only in a step of the for loop, and the table only in the    *)
(* save loop of the main thread, when every submitted URL's outcome has been *)
(* taken and no worker thread holds or awaits a work item.                   *)
WorkerStep ==
    /\ Len(futures') = Len(futures)
    /\ \E i \in 1..Len(futures) : futures'[i].st # futures[i].st

C18_MainThreadAlone ==
    [][/\ WorkerStep =>
             /\ results' = results /\ store' = store /\ consumed' = consumed
             /\ saveIdx' = saveIdx /\ pc' = pc
             /\ \E i \in 1..Len(futures) :
                   /\ \A j \in 1..Len(futures) : j # i => futures'[j] = futures[j]
                   /\ <<futures[i].st, futures'[i].st>>
                         \in {<<"queued", "running">>, <<"running", "done">>}
       /\ results' # results => (pc = "loop" /\ futures' = futures /\ store' = store)
       /\ store' # store =>
             /\ pc = "save"
             /\ futures' = futures /\ results' = results
             /\ Consumed = Submitted
             /\ \A i \in 1..Len(futures) : futures[i].st = "done"]_vars

\* the first row of a run is written, after three tasks on two worker threads
C18_Witness ==
    /\ pc = "save"
    /\ workers = 2
    /\ Len(futures) = 3
    /\ saveIdx = 2
    /\ Len(store) = Len(store0) + 1

(* C19: scrape_sources submits a URL as often as its sources list it. Each   *)
(* submission has an outcome of its own, each one that survives is in the    *)
(* returned list with its own source label, in the order taken; once the     *)
(* results are saved the table has one row for the URL: that of the         *)
(* surviving submission whose outcome the loop took first, or the row an     *)
(* earlier run had stored for the URL.                                       *)
SubmissionsOf(u) == {i \in Submitted : Url(i) = u}

\* the positions in consumed of the surviving submissions of u
SurvivingAt(u) == {a \in 1..Len(consumed) : Url(consumed[a]) = u /\ Passes(consumed[a])}

FirstSurvivor(u) ==
    consumed[CHOOSE a \in SurvivingAt(u) : \A b \in SurvivingAt(u) : a <= b]

FirstOf(s, n) == [k \in 1..(IF n < Len(s) THEN n ELSE Len(s)) |-> s[k]]

RECURSIVE ToSubmit(_)
ToSubmit(papers) ==
    IF papers = <<>> THEN <<>>
    ELSE LET p == Head(papers)
             ok(u) == Eligible(u, p.source)
             eligible == SelectSeq(p.articles, ok)
             chosen == IF max_per_source = NoInt \/ max_per_source[1] = 0
                       THEN eligible
                       ELSE FirstOf(eligible, max_per_source[1])
         IN  Tagged(chosen, p.source) \o ToSubmit(Tail(papers))

C20_CapCountsEligibleUrls ==
    /\ pc \in {"build", "executor", "submit"} => all_raw_articles = ToSubmit(discovered)
    /\ pc \in {"loop", "save", "done"} => Len(futures) = Len(all_raw_articles)

\* CNN lists A (an ad), B, C (2024) and F; with the cap 1, B alone is submitted for CNN
C20_Witness ==
    /\ prog = "scraping"
    /\ pc = "submit"
    /\ Len(futures) = 2
    /\ max_per_source = <<1>>
    /\ discovered[1] = [source |-> "CNN", articles |-> <<uA, uB, uC, uF>>]
    /\ discovered[2].articles = <<uReel, uNews>>
    /\ all_raw_articles = <<[url |-> uB, source |-> "CNN"], [url |-> uNews, source |-> "BBC"]>>

====
